---------------------------- MODULE Spec2Model ----------------------------
(***************************************************************************)
(* A model of editorconfig-lint's single-pass checker: the character       *)
(* readers of src/reader.rs (bytes -> Character tokens) and the check       *)
(* engine of src/check.rs (tokens -> Diagnosis list); and, of               *)
(* src/config.rs, the section lookup of Config::get_config_for and the      *)
(* brace expansion of parse_pattern.                                        *)
(*                                                                         *)
(* Option<T> is a sequence of length at most one: None is <<>>, Some(x) is  *)
(* <<x>>.  A byte is a number in 0..255.  The byte source is the sequence   *)
(* `input`, read from position `pos`; read(buf) returns as many bytes as    *)
(* the buffer asks for unless the input ends first (what a BufReader over   *)
(* a file gives the 1-, 2- and 4-byte reads of these readers).              *)
(***************************************************************************)
EXTENDS Integers, Sequences, FiniteSets, TLC

VARIABLES
    config,     \* the Config handed to check (read-only for the run)
    input,      \* the bytes of the byte source (read-only for the run)
    pos,        \* 1-based position of the next unread byte of input
    pc,         \* where check() is: "start", "loop", "done", "failed",
                \* "panicked"; "idle" when check() is not the function run
    cs,         \* the CheckState: line, col, state, prev_newline, diagnosis
    tokens,     \* history: what each reader.next() call returned and consumed
    result,     \* what check() returned: None while it runs
    lookup,     \* Config::get_config_for over one config file
    pat         \* parse_pattern over one section pattern

checkVars == <<config, input, pos, pc, cs, tokens, result>>
cfgVars == <<lookup, pat>>
vars == <<config, input, pos, pc, cs, tokens, result, lookup, pat>>

None == <<>>
Some(x) == <<x>>

---------------------------------------------------------------------------
(* Bounds of the model.                                                    *)

\* longest input of the text sweep (specification Spec)
MaxLen == 3
\* longest input of the byte sweep (specification SpecBytes)
MaxByteLen == 3
\* largest indent_size of the configurations
MaxIndentSize == 2
MaxSections == 3
MaxAlts == 3
MaxPatLen == 4

---------------------------------------------------------------------------
(* src/reader.rs                                                           *)

CR == 13
LF == 10
SPACE == 32
TAB == 9

\* enum Character
Bom == [kind |-> "Bom", v |-> <<>>]
Invalid(bytes) == [kind |-> "Invalid", v |-> bytes]
NewLine(nl) == [kind |-> "NewLine", v |-> nl]
Indent(ind) == [kind |-> "Indent", v |-> ind]
Valid(bytes) == [kind |-> "Valid", v |-> bytes]

\* a mutant of NewLineChar_eq: the two arms crossed
NewLineChar_eq_crossed(nl, le) ==
    \/ nl = "Cr" /\ le = "Lf"
    \/ nl = "Lf" /\ le = "Cr"

\* impl PartialEq<LineEnding> for NewLineChar
NewLineChar_eq(nl, le) ==
    \/ nl = "Cr" /\ le = "Cr"
    \/ nl = "Lf" /\ le = "Lf"

Min(a, b) == IF a <= b THEN a ELSE b

\* self.0.read(&mut buf) with a buffer of n bytes, from position p: the bytes read
read(p, n) == SubSeq(input, p, Min(p + n - 1, Len(input)))

\* the result of one next() call: the token (an Option, None at end of input)
\* and the number of bytes taken from the source
Yield(tok, used) == [tok |-> tok, used |-> used]

\* the four whitespace specials shared by the byte-oriented readers
IsSpecial(b) == b \in {CR, LF, SPACE, TAB}
Special(b) ==
    CASE b = CR -> NewLine("Cr")
      [] b = LF -> NewLine("Lf")
      [] b = SPACE -> Indent("Space")
      [] b = TAB -> Indent("Tab")

\* std::str::from_utf8(&buf[0..n]).is_ok() for a slice that starts with a
\* leading byte announcing n = Len(bs) bytes: one well-formed UTF-8 sequence
Cont(b) == b \in 128..191
from_utf8_ok(bs) ==
    CASE Len(bs) = 2 -> bs[1] \in 194..223 /\ Cont(bs[2])
      [] Len(bs) = 3 ->
            /\ Cont(bs[3])
            /\ \/ bs[1] = 224 /\ bs[2] \in 160..191
               \/ bs[1] \in 225..236 /\ Cont(bs[2])
               \/ bs[1] = 237 /\ bs[2] \in 128..159
               \/ bs[1] \in 238..239 /\ Cont(bs[2])
      [] Len(bs) = 4 ->
            /\ Cont(bs[3]) /\ Cont(bs[4])
            /\ \/ bs[1] = 240 /\ bs[2] \in 144..191
               \/ bs[1] \in 241..243 /\ Cont(bs[2])
               \/ bs[1] = 244 /\ bs[2] \in 128..143
      [] OTHER -> FALSE

\* "\u{FEFF}" as UTF-8
BOM_UTF8 == <<239, 187, 191>>

\* the length a UTF-8 leading byte announces (0: bad leading bits):
\* ch & 0xF8 == 0xF0 -> 4, ch & 0xF0 == 0xE0 -> 3, ch & 0xE0 == 0xC0 -> 2
Utf8SeqLen(ch) ==
    IF (ch \div 8) * 8 = 240 THEN 4
    ELSE IF (ch \div 16) * 16 = 224 THEN 3
    ELSE IF (ch \div 32) * 32 = 192 THEN 2
    ELSE 0

\* the tail of Utf8Reader::next for a byte >= 0x80: `first` is buf[0..1]
Utf8Multi(p, first) ==
    LET n == Utf8SeqLen(first[1])
        more == read(p + 1, n - 1)      \* self.0.read(&mut buf[1..n])
        len == Len(more)
        buf == first \o more
    IN  IF n = 0 THEN Yield(Some(Invalid(first)), 1)
        ELSE IF len = n /\ from_utf8_ok(buf)
             THEN IF buf = BOM_UTF8
                  THEN Yield(Some(Bom), 1 + len)
                  ELSE Yield(Some(Valid(buf)), 1 + len)
             ELSE Yield(Some(Invalid(SubSeq(buf, 1, len))), 1 + len)

Utf8Reader_next(p) ==
    LET first == read(p, 1)
    IN  IF Len(first) = 0 THEN Yield(None, 0)
        ELSE IF IsSpecial(first[1]) THEN Yield(Some(Special(first[1])), 1)
        ELSE IF first[1] < 128 THEN Yield(Some(Valid(first)), 1)
        ELSE Utf8Multi(p, first)

Latin1Reader_next(p) ==
    LET buf == read(p, 1)
    IN  IF Len(buf) = 0 THEN Yield(None, 0)
        ELSE IF IsSpecial(buf[1]) THEN Yield(Some(Special(buf[1])), 1)
        ELSE IF buf[1] \notin 127..160 THEN Yield(Some(Valid(buf)), 1)
        ELSE Yield(Some(Invalid(buf)), 1)

\* the high-surrogate arm of the UTF-16 readers: `unit` is buf[0..2]
Utf16Surrogate(p, unit) ==
    LET more == read(p + 2, 2)          \* self.0.read(&mut buf[2..4])
        len == Len(more)
        buf == unit \o more
    IN  IF len = 2 /\ buf[4] \in 220..223
        THEN Yield(Some(Valid(buf)), 2 + len)
        ELSE Yield(Some(Invalid(buf)), 2 + len)

Utf16LeReader_next(p) ==
    LET buf == read(p, 2)
    IN  CASE Len(buf) = 0 -> Yield(None, 0)
          [] Len(buf) = 1 -> Yield(Some(Invalid(buf)), 1)
          [] OTHER ->
                IF buf[2] = 0 /\ IsSpecial(buf[1]) THEN Yield(Some(Special(buf[1])), 2)
                ELSE IF buf = <<255, 254>> THEN Yield(Some(Bom), 2)
                ELSE IF buf[2] \in 216..219 THEN Utf16Surrogate(p, buf)
                ELSE Yield(Some(Valid(SubSeq(buf, 1, 1))), 2)

Utf16BeReader_next(p) ==
    LET buf == read(p, 2)
    IN  CASE Len(buf) = 0 -> Yield(None, 0)
          [] Len(buf) = 1 -> Yield(Some(Invalid(buf)), 1)
          [] OTHER ->
                IF buf[1] = 0 /\ IsSpecial(buf[2]) THEN Yield(Some(Special(buf[2])), 2)
                ELSE IF buf = <<254, 255>> THEN Yield(Some(Bom), 2)
                ELSE IF buf[1] \in 216..219 THEN Utf16Surrogate(p, buf)
                ELSE Yield(Some(Valid(SubSeq(buf, 1, 1))), 2)

\* a mutant of UncheckedEncodingReader_next: the bytes decoded as UTF-8
UncheckedEncodingReader_next_decoding(p) == Utf8Reader_next(p)

UncheckedEncodingReader_next(p) ==
    LET buf == read(p, 1)
    IN  IF Len(buf) = 0 THEN Yield(None, 0)
        ELSE IF IsSpecial(buf[1]) THEN Yield(Some(Special(buf[1])), 1)
        ELSE Yield(Some(Valid(buf)), 1)

\* CharacterReader::new: the reader variant for a charset; Latin-1 is todo!()
CharacterReader_new(charset) ==
    CASE charset = Some("Latin1") -> "panic"
      [] charset \in {Some("Utf8"), Some("Utf8WithBom")} -> "Utf8"
      [] charset = Some("Utf16BigEndian") -> "Utf16Be"
      [] charset = Some("Utf16LittleEndian") -> "Utf16Le"
      [] charset = None -> "UncheckedEncoding"

\* Reader::next dispatched on the enum CharacterReader
Reader_next(reader, p) ==
    CASE reader = "Utf8" -> Utf8Reader_next(p)
      [] reader = "Latin1" -> Latin1Reader_next(p)
      [] reader = "Utf16Le" -> Utf16LeReader_next(p)
      [] reader = "Utf16Be" -> Utf16BeReader_next(p)
      [] reader = "UncheckedEncoding" -> UncheckedEncodingReader_next(p)

---------------------------------------------------------------------------
(* src/check.rs                                                            *)

\* struct Diagnosis; a Reason is a tuple: its name, then its payload if any
Diagnosis(line, range, reason) == [line |-> line, range |-> range, reason |-> reason]
IndentStyle == <<"IndentStyle">>
IndentSizeMismatch(len) == <<"IndentSizeMismatch", len>>
EndOfLineMismatch == <<"EndOfLineMismatch">>
TrailingWhiteSpaces == <<"TrailingWhiteSpaces">>
NoFinalNewline == <<"NoFinalNewline">>
BomNotFound == <<"BomNotFound">>
InvalidCharacter == <<"InvalidCharacter">>

\* enum State; the fields a variant does not have are held at 0 and FALSE
State_Indent(len, style_error) == [tag |-> "Indent", len |-> len, style_error |-> style_error]
State_NonWhitespace == [tag |-> "NonWhitespace", len |-> 0, style_error |-> FALSE]
State_NonIndentWhitespace(len) == [tag |-> "NonIndentWhitespace", len |-> len, style_error |-> FALSE]

\* the CheckState built at the top of check()
CheckState_new ==
    [line |-> 1, col |-> 1, state |-> State_Indent(0, FALSE),
     prev_newline |-> None, diagnosis |-> <<>>]

\* a mutant of push_diagnosis: the new diagnosis put first
push_diagnosis_front(s, diag) == [s EXCEPT !.diagnosis = <<diag>> \o @]

push_diagnosis(s, diag) == [s EXCEPT !.diagnosis = Append(@, diag)]

\* a mutant of move_next_line: the column is not reset
move_next_line_keeps_col(s) == [s EXCEPT !.line = @ + 1]

move_next_line(s) == [s EXCEPT !.line = @ + 1, !.col = 1]

\* config.end_of_line.map(|v| new_line != v).unwrap_or(false)
EolDisagrees(new_line) ==
    /\ config.end_of_line /= None
    /\ ~NewLineChar_eq(new_line, config.end_of_line[1])

\* config.end_of_line.map(|v| v != kind).unwrap_or(false)
EolIsNot(kind) ==
    /\ config.end_of_line /= None
    /\ config.end_of_line[1] /= kind

\* a mutant of check_end_of_newline: the line advances before the diagnosis
check_end_of_newline_advance_first(s) ==
    IF s.prev_newline = None THEN s
    ELSE LET new_line == s.prev_newline[1]
             taken == move_next_line([s EXCEPT !.prev_newline = None])
         IN  IF EolDisagrees(new_line)
             THEN push_diagnosis(taken,
                      Diagnosis(taken.line, <<taken.col - 1, taken.col>>, EndOfLineMismatch))
             ELSE taken

check_end_of_newline(s) ==
    IF s.prev_newline = None THEN s
    ELSE LET new_line == s.prev_newline[1]
             taken == [s EXCEPT !.prev_newline = None]
             s1 == IF EolDisagrees(new_line)
                   THEN push_diagnosis(taken,
                            Diagnosis(taken.line, <<taken.col - 1, taken.col>>, EndOfLineMismatch))
                   ELSE taken
         IN  move_next_line(s1)

\* a mutant of check_end_of_indent: the size is compared, not divided
check_end_of_indent_compared(s, len, style_error) ==
    IF style_error
    THEN push_diagnosis(s, Diagnosis(s.line, <<s.col - len, s.col>>, IndentStyle))
    ELSE IF config.indent_size /= None /\ len /= config.indent_size[1]
         THEN push_diagnosis(s, Diagnosis(s.line, <<s.col - len, s.col>>, IndentSizeMismatch(len)))
         ELSE s

check_end_of_indent(s, len, style_error) ==
    IF style_error
    THEN push_diagnosis(s, Diagnosis(s.line, <<s.col - len, s.col>>, IndentStyle))
    ELSE IF config.indent_size /= None /\ len % config.indent_size[1] /= 0
         THEN push_diagnosis(s, Diagnosis(s.line, <<s.col - len, s.col>>, IndentSizeMismatch(len)))
         ELSE s

\* a mutant of check_ch_Indent: the column is not advanced
check_ch_Indent_keeps_col(s, indent) ==
    LET s1 == CASE s.state.tag = "NonWhitespace" ->
                     [s EXCEPT !.state = State_NonIndentWhitespace(1)]
                [] s.state.tag = "Indent" ->
                     LET len == s.state.len
                         style_error == s.state.style_error
                         s0 == IF len = 0 THEN check_end_of_newline(s) ELSE s
                         disagrees ==
                             \/ indent = "Space" /\ config.indent_style = Some("Tab")
                             \/ indent = "Tab" /\ config.indent_style = Some("Space")
                     IN  [s0 EXCEPT !.state =
                             IF disagrees THEN State_Indent(len + 1, TRUE)
                             ELSE State_Indent(len + 1, style_error)]
                [] OTHER -> s
    IN  [s1 EXCEPT !.prev_newline = None]

\* a mutant of check_ch_Indent: style_error follows the last indent character
check_ch_Indent_unlatched(s, indent) ==
    LET s1 == CASE s.state.tag = "NonWhitespace" ->
                     [s EXCEPT !.state = State_NonIndentWhitespace(1)]
                [] s.state.tag = "Indent" ->
                     LET len == s.state.len
                         s0 == IF len = 0 THEN check_end_of_newline(s) ELSE s
                         disagrees ==
                             \/ indent = "Space" /\ config.indent_style = Some("Tab")
                             \/ indent = "Tab" /\ config.indent_style = Some("Space")
                     IN  [s0 EXCEPT !.state = State_Indent(len + 1, disagrees)]
                [] OTHER -> s
    IN  [s1 EXCEPT !.col = @ + 1, !.prev_newline = None]

\* check_ch, arm Character::Indent(indent)
check_ch_Indent(s, indent) ==
    LET s1 == CASE s.state.tag = "NonWhitespace" ->
                     [s EXCEPT !.state = State_NonIndentWhitespace(1)]
                [] s.state.tag = "Indent" ->
                     LET len == s.state.len
                         style_error == s.state.style_error
                         s0 == IF len = 0 THEN check_end_of_newline(s) ELSE s
                         disagrees ==
                             \/ indent = "Space" /\ config.indent_style = Some("Tab")
                             \/ indent = "Tab" /\ config.indent_style = Some("Space")
                     IN  [s0 EXCEPT !.state =
                             IF disagrees THEN State_Indent(len + 1, TRUE)
                             ELSE State_Indent(len + 1, style_error)]
                [] OTHER -> s
    IN  [s1 EXCEPT !.col = @ + 1, !.prev_newline = None]

\* a mutant of NewLineTrailing: the line state is not reset
NewLineTrailing_no_reset(s) ==
    LET s1 == IF s.state.tag = "Indent" /\ s.state.style_error
              THEN push_diagnosis(s,
                       Diagnosis(s.line, <<s.col - s.state.len, s.col>>, IndentStyle))
              ELSE s
        trailing == IF s.state.tag \in {"NonIndentWhitespace", "Indent"}
                    THEN Some(s.state.len) ELSE None
        trim == config.trim_trailing_whitespace = Some(TRUE)
    IN  IF trailing /= None /\ trailing[1] /= 0 /\ trim
        THEN push_diagnosis(s1,
                 Diagnosis(s1.line, <<s1.col - trailing[1], s1.col>>, TrailingWhiteSpaces))
        ELSE s1

\* check_ch, arm Character::NewLine: the trailing-whitespace part (lines 135-161)
NewLineTrailing(s) ==
    LET s1 == IF s.state.tag = "Indent" /\ s.state.style_error
              THEN push_diagnosis(s,
                       Diagnosis(s.line, <<s.col - s.state.len, s.col>>, IndentStyle))
              ELSE s
        trailing == IF s.state.tag \in {"NonIndentWhitespace", "Indent"}
                    THEN Some(s.state.len) ELSE None
        trim == config.trim_trailing_whitespace = Some(TRUE)
        s2 == IF trailing /= None /\ trailing[1] /= 0 /\ trim
              THEN push_diagnosis(s1,
                       Diagnosis(s1.line, <<s1.col - trailing[1], s1.col>>, TrailingWhiteSpaces))
              ELSE s1
    IN  [s2 EXCEPT !.state = State_Indent(0, FALSE)]

\* emit EndOfLineMismatch at (col-1, col) when `mismatch`
PushEolIf(s, mismatch) ==
    IF mismatch
    THEN push_diagnosis(s, Diagnosis(s.line, <<s.col - 1, s.col>>, EndOfLineMismatch))
    ELSE s

\* a mutant of NewLinePair: LF CR is taken as one terminator, as CR LF is
NewLinePair_either_order(s, newline) ==
    CASE s.prev_newline = None ->
            [s EXCEPT !.prev_newline = Some(newline)]
      [] newline = "Lf" /\ s.prev_newline = Some("Lf") ->
            move_next_line([PushEolIf(s, EolIsNot("Lf")) EXCEPT !.prev_newline = Some("Lf")])
      [] newline = "Lf" /\ s.prev_newline = Some("Cr") ->
            move_next_line([PushEolIf(s, EolIsNot("Crlf")) EXCEPT !.prev_newline = None])
      [] newline = "Cr" /\ s.prev_newline = Some("Lf") ->
            move_next_line([PushEolIf(s, TRUE) EXCEPT !.prev_newline = None])
      [] newline = "Cr" /\ s.prev_newline = Some("Cr") ->
            move_next_line([PushEolIf(s, EolIsNot("Cr")) EXCEPT !.prev_newline = Some("Cr")])

\* check_ch, arm Character::NewLine: match (newline, self.prev_newline) (lines 163-224)
NewLinePair(s, newline) ==
    CASE s.prev_newline = None ->
            [s EXCEPT !.prev_newline = Some(newline)]
      [] newline = "Lf" /\ s.prev_newline = Some("Lf") ->
            move_next_line([PushEolIf(s, EolIsNot("Lf")) EXCEPT !.prev_newline = Some("Lf")])
      [] newline = "Lf" /\ s.prev_newline = Some("Cr") ->
            move_next_line([PushEolIf(s, EolIsNot("Crlf")) EXCEPT !.prev_newline = None])
      [] newline = "Cr" /\ s.prev_newline = Some("Lf") ->
            move_next_line([PushEolIf(s, TRUE) EXCEPT !.prev_newline = Some("Cr")])
      [] newline = "Cr" /\ s.prev_newline = Some("Cr") ->
            move_next_line([PushEolIf(s, EolIsNot("Cr")) EXCEPT !.prev_newline = Some("Cr")])

check_ch_NewLine(s, newline) == NewLinePair(NewLineTrailing(s), newline)

\* the match on self.state shared by the Valid and the Invalid | Bom arms
EndOfIndentRun(s) ==
    IF s.state.tag = "Indent"
    THEN check_end_of_indent(check_end_of_newline(s), s.state.len, s.state.style_error)
    ELSE s

\* a mutant of check_ch_Valid: the line stays in its leading run
check_ch_Valid_stays(s) == [EndOfIndentRun(s) EXCEPT !.col = @ + 1]

\* check_ch, arm Character::Valid(_)
check_ch_Valid(s) ==
    [EndOfIndentRun(s) EXCEPT !.state = State_NonWhitespace, !.col = @ + 1]

\* check_ch, arm Character::Invalid(_) | Character::Bom
check_ch_Invalid(s) ==
    LET s1 == EndOfIndentRun(s)
        s2 == push_diagnosis(s1, Diagnosis(s1.line, <<s1.col - 1, s1.col>>, InvalidCharacter))
    IN  [s2 EXCEPT !.state = State_NonWhitespace, !.col = @ + 1]

check_ch(s, ch) ==
    CASE ch.kind = "Indent" -> check_ch_Indent(s, ch.v)
      [] ch.kind = "NewLine" -> check_ch_NewLine(s, ch.v)
      [] ch.kind = "Valid" -> check_ch_Valid(s)
      [] ch.kind \in {"Invalid", "Bom"} -> check_ch_Invalid(s)

IsBom(tok) == tok /= None /\ tok[1].kind = "Bom"

\* a mutant of Preamble: a missing mark is reported under UTF-16 too
Preamble_reports_all(s, charset, tok) ==
    IF ~IsBom(tok)
    THEN LET s1 == push_diagnosis(s, Diagnosis(1, <<0, 0>>, BomNotFound))
         IN  IF tok /= None THEN check_ch(s1, tok[1]) ELSE s1
    ELSE s

\* the match on config.charset before the main loop of check(): the CheckState
\* after the preamble, given what the first reader.next() returned
Preamble(s, charset, tok) ==
    CASE charset = Some("Utf8WithBom") ->
            IF ~IsBom(tok)
            THEN LET s1 == push_diagnosis(s, Diagnosis(1, <<0, 0>>, BomNotFound))
                 IN  IF tok /= None THEN check_ch(s1, tok[1]) ELSE s1
            ELSE s
      [] charset \in {Some("Utf16BigEndian"), Some("Utf16LittleEndian")} ->
            IF ~IsBom(tok) /\ tok /= None THEN check_ch(s, tok[1]) ELSE s

\* the charsets whose preamble reads a first token
HasBomCheck(charset) ==
    charset \in {Some("Utf8WithBom"), Some("Utf16BigEndian"), Some("Utf16LittleEndian")}

---------------------------------------------------------------------------
(* The configurations and the inputs of the model.                         *)

IndentStyles == {"Space", "Tab"}
LineEndings == {"Lf", "Crlf", "Cr"}
Charsets == {"Latin1", "Utf8", "Utf8WithBom", "Utf16BigEndian", "Utf16LittleEndian"}

Opt(S) == {None} \cup {Some(x) : x \in S}

\* struct Config; tab_width and insert_final_newline are never read by check()
\* and stay absent; indent_size is positive (0 is not a size the spec allows)
Configs ==
    [indent_style : Opt(IndentStyles),
     indent_size : Opt(2..MaxIndentSize),
     tab_width : {None},
     end_of_line : Opt(LineEndings),
     charset : Opt(Charsets),
     trim_trailing_whitespace : Opt(BOOLEAN),
     insert_final_newline : {None}]

\* config = {}: every option absent
EmptyConfig ==
    [indent_style |-> None, indent_size |-> None, tab_width |-> None,
     end_of_line |-> None, charset |-> None,
     trim_trailing_whitespace |-> None, insert_final_newline |-> None]

\* the configurations that set nothing but the charset
CharsetConfigs == {[EmptyConfig EXCEPT !.charset = c] : c \in Opt(Charsets)}

SeqsUpTo(S, n) == UNION {[1..k -> S] : k \in 0..n}

\* CR, LF, space, tab, 'a', and 0xFF (no UTF-8 leading byte)
TextBytes == {CR, LF, SPACE, TAB, 97, 255}

\* the specials, 'a', NUL, U+FEFF and U+00E9 as UTF-8, the UTF-16 marks and a
\* surrogate pair's high bytes
Bytes == {CR, LF, SPACE, TAB, 97, 0, 239, 187, 191, 195, 169, 255, 254, 216, 220}

\* the literal inputs of the specification's boundary scenarios
ExCrlf == <<97, CR, LF, 98, CR, LF>>
ExBlank == <<SPACE, SPACE, SPACE, LF>>
ExTrail == <<120, SPACE, SPACE, LF>>
ExAbc == <<97, 98, 99>>
ExLatin1 == <<65, 127, LF>>
ExMixed == <<SPACE, TAB, 120, LF>>
ExIndent3 == <<SPACE, SPACE, SPACE, 120, LF>>
\* UTF-16 inputs: two marks, and 'a' then a mark, in each byte order
ExMarksLe == <<255, 254, 255, 254>>
ExMarksBe == <<254, 255, 254, 255>>
ExLateMarkLe == <<97, 0, 255, 254>>
ExLateMarkBe == <<0, 97, 254, 255>>
\* CR CR LF 'a', and LF CR LF 'a'
ExCrCrLf == <<CR, CR, LF, 97>>
ExLfCrLf == <<LF, CR, LF, 97>>
Examples ==
    {ExCrlf, ExBlank, ExTrail, ExAbc, ExLatin1, BOM_UTF8, ExMixed, ExIndent3,
     ExMarksLe, ExMarksBe, ExLateMarkLe, ExLateMarkBe, ExCrCrLf, ExLfCrLf}

---------------------------------------------------------------------------
(* check(): one action per step.                                           *)

\* std::io::Result<Vec<Diagnosis>>
Ok(v) == <<"Ok", v>>
Err(e) == <<"Err", e>>

\* get_config_for and parse_pattern when they are not the function run
LookupIdle == [sections |-> <<>>, i |-> 0, pc |-> "idle", found |-> None]
PatIdle == [pattern |-> <<>>, s |-> <<>>, expanded_patterns |-> <<>>, pc |-> "idle"]

Start ==
    /\ pos = 1
    /\ pc = "start"
    /\ cs = CheckState_new
    /\ tokens = <<>>
    /\ result = None
    /\ lookup = LookupIdle
    /\ pat = PatIdle

Init ==
    /\ config \in Configs
    /\ input \in SeqsUpTo(TextBytes, MaxLen) \cup Examples
    /\ Start

InitBytes ==
    /\ config \in CharsetConfigs
    /\ input \in SeqsUpTo(Bytes, MaxByteLen) \cup Examples
    /\ Start

\* one reader.next() call that returned a token: the history entry
Consumed(r) == [tok |-> r.tok[1], at |-> pos, used |-> r.used]

\* CharacterReader::new and the BOM preamble (lines 258-298)
Begin ==
    /\ pc = "start"
    /\ LET reader == CharacterReader_new(config.charset)
       IN  IF reader = "panic"
           THEN pc' = "panicked" /\ UNCHANGED <<pos, cs, tokens>>
           ELSE IF ~HasBomCheck(config.charset)
           THEN pc' = "loop" /\ UNCHANGED <<pos, cs, tokens>>
           ELSE LET r == Reader_next(reader, pos)
                IN  /\ pc' = "loop"
                    /\ cs' = Preamble(cs, config.charset, r.tok)
                    /\ pos' = pos + r.used
                    /\ tokens' = IF r.tok = None THEN tokens
                                 ELSE Append(tokens, Consumed(r))
    /\ UNCHANGED <<config, input, result>>
    /\ UNCHANGED cfgVars

\* a mutant of LoopStep: the token is taken without moving on in the source
LoopStep_rereads ==
    /\ pc = "loop"
    /\ LET r == Reader_next(CharacterReader_new(config.charset), pos)
       IN  /\ r.tok /= None
           /\ cs' = check_ch(cs, r.tok[1])
           /\ tokens' = Append(tokens, Consumed(r))
    /\ UNCHANGED <<config, input, pc, result, pos>>
    /\ UNCHANGED cfgVars

\* one iteration of `while let Some(ch) = reader.next()?` (lines 300-302)
LoopStep ==
    /\ pc = "loop"
    /\ LET r == Reader_next(CharacterReader_new(config.charset), pos)
       IN  /\ r.tok /= None
           /\ cs' = check_ch(cs, r.tok[1])
           /\ pos' = pos + r.used
           /\ tokens' = Append(tokens, Consumed(r))
    /\ UNCHANGED <<config, input, pc, result>>
    /\ UNCHANGED cfgVars

\* a mutant of Return: the pending newline is resolved at end-of-input
Return_resolves ==
    /\ pc = "loop"
    /\ Reader_next(CharacterReader_new(config.charset), pos).tok = None
    /\ pc' = "done"
    /\ cs' = check_end_of_newline(cs)
    /\ result' = Some(Ok(cs'.diagnosis))
    /\ UNCHANGED <<config, input, pos, tokens>>
    /\ UNCHANGED cfgVars

\* reader.next() returns None: the loop ends and check returns Ok(state.diagnosis)
Return ==
    /\ pc = "loop"
    /\ Reader_next(CharacterReader_new(config.charset), pos).tok = None
    /\ pc' = "done"
    /\ result' = Some(Ok(cs.diagnosis))
    /\ UNCHANGED <<config, input, pos, cs, tokens>>
    /\ UNCHANGED cfgVars

\* a mutant of Fail: the diagnoses gathered so far are returned
Fail_returns_diagnoses ==
    /\ \/ pc = "start" /\ HasBomCheck(config.charset)
       \/ pc = "loop"
    /\ pc' = "failed"
    /\ result' = Some(Ok(cs.diagnosis))
    /\ UNCHANGED <<config, input, pos, cs, tokens>>
    /\ UNCHANGED cfgVars

\* reader.next() returns Err(e), the read of the byte source having failed:
\* the `?` of the preamble (lines 277, 291) or of the loop (line 300) returns it
Fail ==
    /\ \/ pc = "start" /\ HasBomCheck(config.charset)
       \/ pc = "loop"
    /\ pc' = "failed"
    /\ result' = Some(Err("io"))
    /\ UNCHANGED <<config, input, pos, cs, tokens>>
    /\ UNCHANGED cfgVars

Next == Begin \/ LoopStep \/ Return \/ Fail

Spec == Init /\ [][Next]_vars

SpecBytes == InitBytes /\ [][Next]_vars

\* the bytes that tell the readers' arms apart: the specials, a letter, the
\* zero of a UTF-16 special, a UTF-8 lead byte, the UTF-16 marks' bytes and
\* the surrogates' high bytes
LiveBytes == {CR, LF, SPACE, 97, 0, 195, 255, 254, 216, 220}

InitLive ==
    /\ config \in CharsetConfigs
    /\ input \in SeqsUpTo(LiveBytes, MaxByteLen) \cup Examples
    /\ Start

\* check() is sequential code: whenever it can take a step it takes one
SpecBytesLive == InitLive /\ [][Next]_vars /\ WF_vars(Next)

---------------------------------------------------------------------------
(* src/config.rs: Config::get_config_for over the sections of one config   *)
(* file.  Whether a section's pattern matches the path is decided by        *)
(* parse_pattern and the glob crate; here it is an input of each section:   *)
(* "matches", "differs", or "invalid" when parse_pattern or Pattern::new    *)
(* returns an error.                                                        *)

\* check() when it is not the function run
CheckIdle ==
    /\ config = EmptyConfig
    /\ input = <<>>
    /\ pos = 1
    /\ pc = "idle"
    /\ cs = CheckState_new
    /\ tokens = <<>>
    /\ result = None

\* the Config of a section: what the section sets, the rest None
SectionConfigs ==
    {[EmptyConfig EXCEPT !.indent_style = st, !.end_of_line = eol] :
        st \in Opt(IndentStyles), eol \in Opt({"Lf", "Crlf"})}

\* the entries of RawConfigs, in file order
Sections == [outcome : {"matches", "differs", "invalid"}, config : SectionConfigs]

InitLookup ==
    /\ CheckIdle
    /\ pat = PatIdle
    /\ lookup \in {[sections |-> ss, i |-> Len(ss), pc |-> "scan", found |-> None] :
                      ss \in SeqsUpTo(Sections, MaxSections)}

\* one iteration of `for (pattern, config) in config.configs.0.into_iter().rev()`
\* (lines 192-199): sections[i] is the next entry from the end
Examine ==
    /\ lookup.pc = "scan"
    /\ lookup.i >= 1
    /\ LET sec == lookup.sections[lookup.i]
       IN  lookup' =
             CASE sec.outcome = "matches" ->
                    [lookup EXCEPT !.pc = "returned", !.found = Some(sec.config)]
               [] sec.outcome = "invalid" ->
                    [lookup EXCEPT !.pc = "error"]
               [] OTHER ->
                    [lookup EXCEPT !.i = @ - 1]
    /\ UNCHANGED checkVars
    /\ UNCHANGED pat

\* no entry of this file matches; with no further config file up the
\* ancestors the function ends in Err(Error::NotFound) (lines 201-207)
NotFound ==
    /\ lookup.pc = "scan"
    /\ lookup.i = 0
    /\ lookup' = [lookup EXCEPT !.pc = "notfound"]
    /\ UNCHANGED checkVars
    /\ UNCHANGED pat

NextLookup == Examine \/ NotFound

SpecLookup == InitLookup /\ [][NextLookup]_vars

---------------------------------------------------------------------------
(* src/config.rs: parse_pattern.  A &str is the sequence of its            *)
(* characters (one-character strings; the patterns here are ASCII, so byte  *)
(* offsets are character offsets); offsets are 0-based as in the source.    *)

\* &s[a..b]
Slice(s, a, b) == SubSeq(s, a + 1, b)

\* s.find(c) for a char c
find(s, c) ==
    IF \E i \in DOMAIN s : s[i] = c
    THEN Some((CHOOSE i \in DOMAIN s : s[i] = c /\ \A j \in 1..(i - 1) : s[j] /= c) - 1)
    ELSE None

\* s.find("..")
find_dots(s) ==
    LET at(i) == i < Len(s) /\ s[i] = "." /\ s[i + 1] = "."
    IN  IF \E i \in DOMAIN s : at(i)
        THEN Some((CHOOSE i \in DOMAIN s : at(i) /\ \A j \in 1..(i - 1) : ~at(j)) - 1)
        ELSE None

\* inner.split_once("..")
split_once_dots(s) ==
    IF find_dots(s) = None THEN None
    ELSE Some(<<Slice(s, 0, find_dots(s)[1]), Slice(s, find_dots(s)[1] + 2, Len(s))>>)

\* inner.split(c), collected
RECURSIVE split(_, _)
split(s, c) ==
    IF find(s, c) = None THEN <<s>>
    ELSE <<Slice(s, 0, find(s, c)[1])>> \o split(Slice(s, find(s, c)[1] + 1, Len(s)), c)

DigitChars == <<"0", "1", "2", "3", "4", "5", "6", "7", "8", "9">>
IsDigit(ch) == \E d \in DOMAIN DigitChars : DigitChars[d] = ch
DigitValue(ch) == (CHOOSE d \in DOMAIN DigitChars : DigitChars[d] = ch) - 1

RECURSIVE DecimalValue(_)
DecimalValue(ds) ==
    IF ds = <<>> THEN 0
    ELSE 10 * DecimalValue(SubSeq(ds, 1, Len(ds) - 1)) + DigitValue(ds[Len(ds)])

\* str::parse::<i32>: an optional sign, then one digit or more, within i32;
\* None stands for Err(ParseIntError)
parse_i32(s) ==
    LET signed == s /= <<>> /\ s[1] \in {"+", "-"}
        ds == IF signed THEN Tail(s) ELSE s
        v == IF signed /\ s[1] = "-" THEN 0 - DecimalValue(ds) ELSE DecimalValue(ds)
    IN  IF ds = <<>> \/ \E i \in DOMAIN ds : ~IsDigit(ds[i]) THEN None
        ELSE IF v < (0 - 2147483647) - 1 \/ v > 2147483647 THEN None
        ELSE Some(v)

RECURSIVE DecimalDigits(_)
DecimalDigits(n) ==
    IF n < 10 THEN <<DigitChars[n + 1]>>
    ELSE DecimalDigits(n \div 10) \o <<DigitChars[(n % 10) + 1]>>

\* format!("{i}") for an i32
format_i32(i) == IF i < 0 THEN <<"-">> \o DecimalDigits(0 - i) ELSE DecimalDigits(i)

\* (num1..=num2).map(|i| format!("{i}"))
RangeItems(num1, num2) ==
    IF num2 < num1 THEN <<>>
    ELSE [j \in 1..(num2 - num1 + 1) |-> format_i32(num1 + j - 1)]

\* prefixes.iter().flat_map(|prefix| items.map(|i| format!("{prefix}{prev}{i}")))
FlatMap(prefixes, prev, items) ==
    [k \in 1..(Len(prefixes) * Len(items)) |->
        prefixes[((k - 1) \div Len(items)) + 1] \o prev \o items[((k - 1) % Len(items)) + 1]]

\* fn expand (lines 111-164); tag "panic" is the panic of a slice whose start
\* is past its end
expand(prefixes, s) ==
    LET Result(tag, ps, rest) == [tag |-> tag, prefixes |-> ps, rest |-> rest]
        begin_pos == find(s, "{")[1]
        end_pos == find(Slice(s, begin_pos, Len(s)), "}")[1]
        prev == Slice(s, 0, begin_pos)
        inner == Slice(s, begin_pos + 1, end_pos)
        nums == split_once_dots(inner)[1]
        num1 == parse_i32(nums[1])
        num2 == parse_i32(nums[2])
    IN  IF find(s, "{") = None
        THEN Result("Ok", [k \in DOMAIN prefixes |-> prefixes[k] \o s], <<>>)
        ELSE IF find(Slice(s, begin_pos, Len(s)), "}") = None
        THEN Result("Err", prefixes, s)
        ELSE IF begin_pos + 1 > end_pos
        THEN Result("panic", prefixes, s)
        ELSE IF split_once_dots(inner) /= None
        THEN IF num1 = None \/ num2 = None
             THEN Result("Err", prefixes, s)
             ELSE Result("Ok", FlatMap(prefixes, prev, RangeItems(num1[1], num2[1])),
                         Slice(s, end_pos, Len(s)))
        ELSE Result("Ok", FlatMap(prefixes, prev, split(inner, ",")),
                    Slice(s, end_pos + 1, Len(s)))

\* the pieces of `items` with `sep` between them
RECURSIVE Join(_, _)
Join(items, sep) ==
    IF Len(items) = 1 THEN items[1]
    ELSE items[1] \o sep \o Join(Tail(items), sep)

\* section patterns: one brace group, of alternatives or of a number range,
\* between a prefix and a suffix; and every short text over braces, a comma
\* and a letter
Affixes == {<<>>, <<"p">>, <<"q">>, <<"a", "b">>}
Items == {<<>>, <<"a">>, <<"b">>, <<"c">>}
NumberTexts == {<<"1">>, <<"3">>, <<"0", "2">>, <<"x">>}
AltInners == {Join(items, <<",">>) : items \in UNION {[1..k -> Items] : k \in 1..MaxAlts}}
RangeInners == {n \o <<".", ".">> \o m : n \in NumberTexts, m \in NumberTexts}
GroupPatterns ==
    {p \o <<"{">> \o inner \o <<"}">> \o q :
        p \in Affixes, inner \in AltInners \cup RangeInners, q \in Affixes}
PatternChars == {"{", "}", ",", "a"}
Patterns == GroupPatterns \cup SeqsUpTo(PatternChars, MaxPatLen)

\* let mut expanded_patterns = vec!["".to_string()] (line 165)
InitPattern ==
    /\ CheckIdle
    /\ lookup = LookupIdle
    /\ pat \in {[pattern |-> x, s |-> x, expanded_patterns |-> << <<>> >>, pc |-> "expand"] :
                   x \in Patterns}

\* one iteration of `while !s.is_empty()` (lines 166-168): an Err of expand
\* is returned by `?`, a panic of expand ends the call
ExpandStep ==
    /\ pat.pc = "expand"
    /\ pat.s /= <<>>
    /\ LET r == expand(pat.expanded_patterns, pat.s)
       IN  pat' = CASE r.tag = "Ok" ->
                        [pat EXCEPT !.expanded_patterns = r.prefixes, !.s = r.rest]
                   [] r.tag = "Err" -> [pat EXCEPT !.pc = "error"]
                   [] r.tag = "panic" -> [pat EXCEPT !.pc = "panicked"]
    /\ UNCHANGED checkVars
    /\ UNCHANGED lookup

\* s is empty: parse_pattern returns Ok(the expanded patterns, each handed to
\* glob::Pattern::new) (lines 170-172)
Finish ==
    /\ pat.pc = "expand"
    /\ pat.s = <<>>
    /\ pat' = [pat EXCEPT !.pc = "returned"]
    /\ UNCHANGED checkVars
    /\ UNCHANGED lookup

NextPattern == ExpandStep \/ Finish

SpecPattern == InitPattern /\ [][NextPattern]_vars

---------------------------------------------------------------------------
(* Properties.                                                             *)

\* how many diagnoses of the list carry the reason named `name`
NumOf(name) ==
    Cardinality({i \in DOMAIN cs.diagnosis : cs.diagnosis[i].reason[1] = name})

\* the diagnoses with the reason named `name`, in order
Only(name) == SelectSeq(cs.diagnosis, LAMBDA d : d.reason[1] = name)

BeginsWithBom == Len(input) >= 3 /\ SubSeq(input, 1, 3) = BOM_UTF8

ByteOriented == config.charset \in {None, Some("Utf8")}

\* C1: under charset utf-8-bom, BomNotFound (line 1, range (0,0), first, once)
\* is returned exactly when the input does not begin with the UTF-8 mark
\* EF BB BF; the mark alone gives no diagnosis and "abc" gives BomNotFound only.
C1_BomNotFoundIffNoMark ==
    (pc = "done" /\ config.charset = Some("Utf8WithBom")) =>
        /\ BeginsWithBom => NumOf("BomNotFound") = 0
        /\ input = BOM_UTF8 => cs.diagnosis = <<>>
        /\ ~BeginsWithBom =>
              /\ NumOf("BomNotFound") = 1
              /\ cs.diagnosis[1] = Diagnosis(1, <<0, 0>>, BomNotFound)
        /\ input = ExAbc => cs.diagnosis = <<Diagnosis(1, <<0, 0>>, BomNotFound)>>

\* the bytes at p are a complete well-formed multi-byte UTF-8 sequence
Utf8SeqAt(p) == SubSeq(input, p, p + Utf8SeqLen(input[p]) - 1)
WellFormedAt(p) ==
    /\ Utf8SeqLen(input[p]) >= 2
    /\ p + Utf8SeqLen(input[p]) - 1 <= Len(input)
    /\ from_utf8_ok(Utf8SeqAt(p))

\* C2: Utf8Reader.next, at a complete well-formed 2-, 3- or 4-byte sequence,
\* consumes exactly its n bytes and returns BOM for U+FEFF and Valid(the n
\* bytes) otherwise, never Invalid.
C2_Utf8MultiByteDecodes ==
    \A i \in DOMAIN tokens :
        (/\ CharacterReader_new(config.charset) = "Utf8"
         /\ WellFormedAt(tokens[i].at)) =>
            /\ tokens[i].used = Utf8SeqLen(input[tokens[i].at])
            /\ IF Utf8SeqAt(tokens[i].at) = BOM_UTF8
               THEN tokens[i].tok.kind = "Bom"
               ELSE /\ tokens[i].tok.kind = "Valid"
                    /\ tokens[i].tok.v = Utf8SeqAt(tokens[i].at)

\* C3: "a\r\nb\r\n" under charset utf-8 and end_of_line = lf gives exactly two
\* EndOfLineMismatch, at line 1 range (2,3) and at line 2 range (2,3).
C3_CrlfUnderLf ==
    (/\ pc = "done"
     /\ input = ExCrlf
     /\ config = [EmptyConfig EXCEPT !.charset = Some("Utf8"), !.end_of_line = Some("Lf")]) =>
        cs.diagnosis = << Diagnosis(1, <<2, 3>>, EndOfLineMismatch),
                          Diagnosis(2, <<2, 3>>, EndOfLineMismatch) >>

\* C4: with trim_trailing_whitespace = true, a NewLine after a run of k >= 1
\* Indent tokens gives one TrailingWhiteSpaces spanning the whole run: "   \n"
\* gives range (1,4) and no IndentSizeMismatch, "x  \n" gives range (2,4).
C4_TrailingRunSpansWholeRun ==
    (/\ pc = "done"
     /\ ByteOriented
     /\ config.trim_trailing_whitespace = Some(TRUE)) =>
        /\ input = ExBlank =>
              /\ Only("TrailingWhiteSpaces") = <<Diagnosis(1, <<1, 4>>, TrailingWhiteSpaces)>>
              /\ NumOf("IndentSizeMismatch") = 0
        /\ input = ExTrail =>
              Only("TrailingWhiteSpaces") = <<Diagnosis(1, <<2, 4>>, TrailingWhiteSpaces)>>

\* C5: every Diagnosis (BomNotFound, whose range is the point (0,0), apart)
\* has a range (start, end) with 1 <= start <= end.
C5_RangesAreOneBased ==
    \A i \in DOMAIN cs.diagnosis :
        cs.diagnosis[i].reason[1] /= "BomNotFound" =>
            /\ 1 <= cs.diagnosis[i].range[1]
            /\ cs.diagnosis[i].range[1] <= cs.diagnosis[i].range[2]

\* C6: with every option absent, check returns no diagnosis other than
\* InvalidCharacter, and so no EndOfLineMismatch, for any input.
C6_EmptyConfigOnlyInvalidCharacter ==
    config = EmptyConfig =>
        \A i \in DOMAIN cs.diagnosis : cs.diagnosis[i].reason[1] = "InvalidCharacter"

\* C7: with charset latin1, check runs to completion and returns diagnoses;
\* bytes 41 7F 0A give exactly one InvalidCharacter at line 1, range (2,3).
C7_Latin1RunsToCompletion ==
    config.charset = Some("Latin1") =>
        /\ pc /= "panicked"
        /\ (pc = "done" /\ input = ExLatin1) =>
              cs.diagnosis = <<Diagnosis(1, <<2, 3>>, InvalidCharacter)>>

IsNewLine(i, nl) ==
    /\ i \in DOMAIN tokens
    /\ tokens[i].tok.kind = "NewLine"
    /\ tokens[i].tok.v = nl

\* every line terminator among the tokens read so far is of the kind `eol`:
\* only LF tokens for Lf, only CR tokens for Cr, only adjacent CR LF pairs for Crlf
TerminatorsAre(eol) ==
    CASE eol = "Lf" -> \A i \in DOMAIN tokens : ~IsNewLine(i, "Cr")
      [] eol = "Cr" -> \A i \in DOMAIN tokens : ~IsNewLine(i, "Lf")
      [] eol = "Crlf" ->
            \A i \in DOMAIN tokens :
                /\ IsNewLine(i, "Cr") => IsNewLine(i + 1, "Lf")
                /\ IsNewLine(i, "Lf") => IsNewLine(i - 1, "Cr")

\* C8: if end_of_line is set and every line terminator of the input is of the
\* configured kind, no EndOfLineMismatch is returned, whatever the other
\* tokens and options are.
C8_NoMismatchWhenTerminatorsAgree ==
    (config.end_of_line /= None /\ TerminatorsAre(config.end_of_line[1])) =>
        NumOf("EndOfLineMismatch") = 0

\* a run that ended with a CR LF pair followed by a character, under crlf
C8_Witness ==
    /\ pc = "done"
    /\ config.end_of_line = Some("Crlf")
    /\ TerminatorsAre("Crlf")
    /\ Len(tokens) = 3
    /\ IsNewLine(1, "Cr") /\ IsNewLine(2, "Lf")
    /\ tokens[3].tok.kind = "Valid"
    /\ cs.line = 2
    /\ cs.diagnosis = <<>>

IsPrefix(a, b) == Len(a) <= Len(b) /\ SubSeq(b, 1, Len(a)) = a

\* line never decreases along d and, on one line, neither does the range start
Ordered(d) ==
    \A i \in 1..(Len(d) - 1) :
        /\ d[i].line <= d[i + 1].line
        /\ d[i].line = d[i + 1].line => d[i].range[1] <= d[i + 1].range[1]

\* C9: every step of check only appends to the list of diagnoses (so they
\* stand in the order their tokens were consumed), and in the list the line
\* never decreases and, within a line, the range start never decreases.
C9_DiagnosesInSourceOrder ==
    [][IsPrefix(cs.diagnosis, cs'.diagnosis) /\ Ordered(cs'.diagnosis)]_vars

\* three diagnoses: two on line 1 with growing starts, then one on line 2
C9_Witness ==
    /\ pc = "done"
    /\ Len(cs.diagnosis) = 3
    /\ cs.diagnosis[1].line = 1 /\ cs.diagnosis[2].line = 1 /\ cs.diagnosis[3].line = 2
    /\ cs.diagnosis[1].range[1] < cs.diagnosis[2].range[1]
    /\ cs.diagnosis[3].range[1] <= cs.diagnosis[2].range[1]

\* C10: with charset unspecified the reader yields only NewLine, Indent and
\* Valid(1 byte) tokens, and check returns neither InvalidCharacter nor
\* BomNotFound.
C10_UncheckedNeverInvalid ==
    config.charset = None =>
        /\ \A i \in DOMAIN tokens :
              \/ tokens[i].tok.kind \in {"NewLine", "Indent"}
              \/ tokens[i].tok.kind = "Valid" /\ Len(tokens[i].tok.v) = 1
        /\ NumOf("InvalidCharacter") = 0
        /\ NumOf("BomNotFound") = 0

\* the UTF-8 mark read with charset unspecified: three Valid tokens, no diagnosis
C10_Witness ==
    /\ pc = "done"
    /\ config.charset = None
    /\ input = BOM_UTF8
    /\ Len(tokens) = 3
    /\ \A i \in DOMAIN tokens : tokens[i].tok.kind = "Valid"
    /\ cs.diagnosis = <<>>

---------------------------------------------------------------------------
(* Properties of single steps.                                             *)

\* the tokens handed to check_ch so far: all those read, but for a byte-order
\* mark that the preamble read first
FedTokens ==
    IF HasBomCheck(config.charset) /\ tokens /= <<>> /\ tokens[1].tok.kind = "Bom"
    THEN Tail(tokens) ELSE tokens

\* the token this step read
StepTok == tokens'[Len(tokens')].tok

\* this step read a token and handed it to check_ch
Fed == tokens' /= tokens /\ ~(pc = "start" /\ StepTok.kind = "Bom")

\* the diagnoses this step appended, and those of them with the reason `name`
Appended == SubSeq(cs'.diagnosis, Len(cs.diagnosis) + 1, Len(cs'.diagnosis))
AppendedOf(name) == SelectSeq(Appended, LAMBDA d : d.reason[1] = name)

NonWhitespaceKinds == {"Valid", "Invalid", "Bom"}

\* an indent character that is not of the configured indent_style
Disagrees(ind) ==
    \/ ind = "Space" /\ config.indent_style = Some("Tab")
    \/ ind = "Tab" /\ config.indent_style = Some("Space")

\* in a leading run, style_error says whether some character of the run so
\* far disagrees with indent_style
StyleErrorLatched ==
    cs.state.tag = "Indent" =>
        LET n == Len(FedTokens)
            run == (n - cs.state.len + 1)..n
        IN  /\ cs.state.len <= n
            /\ \A j \in run : FedTokens[j].tok.kind = "Indent"
            /\ cs.state.style_error <=> \E j \in run : Disagrees(FedTokens[j].tok.v)

\* a step that ends a leading run with style_error set
EndsBadRun ==
    /\ Fed
    /\ cs.state.tag = "Indent" /\ cs.state.len >= 1 /\ cs.state.style_error
    /\ StepTok.kind /= "Indent"

C11_Literal ==
    (/\ pc = "done" /\ input = ExMixed
     /\ ByteOriented /\ config.indent_style = Some("Space")) =>
        /\ Only("IndentStyle") = <<Diagnosis(1, <<1, 3>>, IndentStyle)>>
        /\ NumOf("IndentSizeMismatch") = 0

\* C11: in a leading indent run style_error is true from the first Indent
\* token that disagrees with indent_style to the end of the run; the token
\* that ends the run (Valid, Invalid, BOM or NewLine) gives one IndentStyle
\* with range (col-len, col) and no IndentSizeMismatch; " \tx\n" under
\* indent_style = space gives one IndentStyle at line 1, range (1,3).
C11_StyleErrorLatchesAndReportsOnce ==
    [][/\ StyleErrorLatched'
       /\ EndsBadRun =>
             /\ AppendedOf("IndentStyle") =
                   <<Diagnosis(cs.line, <<cs.col - cs.state.len, cs.col>>, IndentStyle)>>
             /\ AppendedOf("IndentSizeMismatch") = <<>>
       /\ C11_Literal']_vars

\* tab, space, 'a' under indent_style = space and indent_size = 2: the error
\* of the tab outlives the agreeing space
C11_Witness ==
    /\ pc = "done"
    /\ config.indent_style = Some("Space") /\ config.indent_size = Some(2)
    /\ ByteOriented
    /\ Len(tokens) = 3
    /\ tokens[1].tok = Indent("Tab") /\ tokens[2].tok = Indent("Space")
    /\ tokens[3].tok.kind = "Valid"
    /\ cs.diagnosis = <<Diagnosis(1, <<1, 3>>, IndentStyle)>>

\* a step that ends a leading run of n = cs.state.len characters, none of
\* which disagrees, with a non-whitespace token
EndsGoodRun ==
    /\ Fed
    /\ cs.state.tag = "Indent" /\ ~cs.state.style_error
    /\ StepTok.kind \in NonWhitespaceKinds

SizeMismatch(n) == config.indent_size /= None /\ n % config.indent_size[1] /= 0

C12_Literal ==
    (/\ pc = "done" /\ input = ExIndent3
     /\ ByteOriented /\ config.indent_size = Some(2)
     /\ config.indent_style /= Some("Tab")) =>
        Only("IndentSizeMismatch") = <<Diagnosis(1, <<1, 4>>, IndentSizeMismatch(3))>>

\* C12: the non-whitespace token that ends a leading run of n Indent tokens,
\* none disagreeing with indent_style, gives IndentSizeMismatch(n) with range
\* (1, n+1) exactly when indent_size = s is set and n mod s /= 0; no other step
\* (a NewLine ending a whitespace-only line among them) gives one; "   x\n"
\* under indent_size = 2 gives IndentSizeMismatch(3) at line 1, range (1,4).
C12_SizeMismatchIffNotMultiple ==
    [][/\ AppendedOf("IndentSizeMismatch") =
             IF EndsGoodRun /\ SizeMismatch(cs.state.len)
             THEN <<Diagnosis(cs'.line, <<1, cs.state.len + 1>>,
                              IndentSizeMismatch(cs.state.len))>>
             ELSE <<>>
       /\ C12_Literal']_vars

\* one space then 'a' on the second line, under indent_size = 2
C12_Witness ==
    /\ pc = "done"
    /\ config.indent_size = Some(2) /\ config.indent_style = None
    /\ ByteOriented
    /\ Len(tokens) = 3
    /\ tokens[1].tok.kind = "NewLine" /\ tokens[2].tok = Indent("Space")
    /\ tokens[3].tok.kind = "Valid"
    /\ Only("IndentSizeMismatch") = <<Diagnosis(2, <<1, 2>>, IndentSizeMismatch(1))>>

\* no two diagnoses with the reason `name` are on the same line
AtMostOnePerLine(name) ==
    \A i, j \in DOMAIN Only(name) : Only(name)[i].line = Only(name)[j].line => i = j

\* a leading run of at least one character is open
InRun(s) == s.state.tag = "Indent" /\ s.state.len >= 1

\* C16: each leading indent run triggers at most one IndentStyle and at most
\* one IndentSizeMismatch: a step appends at most one of each, only when it
\* ends an open run, and the run is closed after it; so no line carries two.
C16_AtMostOnePerRun ==
    [][/\ Len(AppendedOf("IndentStyle")) <= 1
       /\ Len(AppendedOf("IndentSizeMismatch")) <= 1
       /\ (AppendedOf("IndentStyle") /= <<>> \/ AppendedOf("IndentSizeMismatch") /= <<>>)
             => Fed /\ InRun(cs) /\ StepTok.kind /= "Indent" /\ ~InRun(cs')
       /\ AtMostOnePerLine("IndentStyle")'
       /\ AtMostOnePerLine("IndentSizeMismatch")']_vars

\* a tab and two letters under indent_style = space: the second letter finds
\* the run closed
C16_Witness ==
    /\ pc = "done"
    /\ config.indent_style = Some("Space")
    /\ ByteOriented
    /\ Len(tokens) = 3
    /\ tokens[1].tok = Indent("Tab")
    /\ tokens[2].tok.kind = "Valid" /\ tokens[3].tok.kind = "Valid"
    /\ NumOf("IndentStyle") = 1

AtLineStart(s) == s.state.tag = "Indent" /\ s.state.len = 0

\* this step moved to the next line
Advanced == cs'.line = cs.line + 1

\* C17 as stated: after a token, Indent{len=0} iff the line has just advanced
\* (line incremented, col reset to 1), and, but for the initial state, never
\* while the advance for the preceding newline is still to come.
C17_LineStartIffJustAdvanced ==
    [][Fed => /\ AtLineStart(cs') <=> (Advanced /\ cs'.col = 1)
              /\ AtLineStart(cs') => cs'.prev_newline = None]_vars

\* C17, amended: after a token, Indent{len=0} iff that token was a NewLine;
\* the advance for it is deferred: either it is pending (prev_newline is
\* Some) or this NewLine completed a pair and the line has just advanced
\* with col reset to 1.
C17_LineStartIffAfterNewLine ==
    [][Fed => /\ AtLineStart(cs') <=> StepTok.kind = "NewLine"
              /\ AtLineStart(cs') =>
                    \/ cs'.prev_newline /= None
                    \/ Advanced /\ cs'.col = 1]_vars

\* 'a' and a line feed: Indent{len=0} on line 1 with the advance pending
C17_Witness ==
    /\ pc = "done"
    /\ Len(FedTokens) = 2
    /\ FedTokens[1].tok.kind = "Valid" /\ FedTokens[2].tok = NewLine("Lf")
    /\ AtLineStart(cs) /\ cs.line = 1 /\ cs.col = 2
    /\ cs.prev_newline = Some("Lf")

\* the number of tokens fed after the last NewLine token
RECURSIVE SinceNewLine(_)
SinceNewLine(ts) ==
    IF ts = <<>> \/ ts[Len(ts)].tok.kind = "NewLine" THEN 0
    ELSE 1 + SinceNewLine(SubSeq(ts, 1, Len(ts) - 1))

\* C18: col is one plus the number of Indent, Valid, Invalid and BOM tokens
\* consumed since the last line advance: such a token adds one to col, after
\* the reset to 1 when it brings the advance; a NewLine token leaves col alone
\* or resets it to 1 with an advance.
C18_ColCountsNonNewlineTokens ==
    [][/\ ~Fed => cs'.col = cs.col /\ cs'.line = cs.line
       /\ (Fed /\ StepTok.kind = "NewLine") =>
             \/ cs'.col = cs.col /\ cs'.line = cs.line
             \/ cs'.col = 1 /\ Advanced
       /\ (Fed /\ StepTok.kind /= "NewLine") =>
             \/ cs'.col = cs.col + 1 /\ cs'.line = cs.line
             \/ cs'.col = 2 /\ Advanced
       /\ (SinceNewLine(FedTokens) >= 1 => cs.col = 1 + SinceNewLine(FedTokens))']_vars

\* a line feed and two letters: col 3 on line 2
C18_Witness ==
    /\ pc = "done"
    /\ Len(FedTokens) = 3
    /\ FedTokens[1].tok.kind = "NewLine"
    /\ FedTokens[2].tok.kind = "Valid" /\ FedTokens[3].tok.kind = "Valid"
    /\ cs.line = 2 /\ cs.col = 3

\* a step that feeds a non-newline token while a single newline is pending
ResolvesPending ==
    /\ Fed
    /\ cs.prev_newline /= None
    /\ StepTok.kind /= "NewLine"

\* C19: a pending single newline (prev_newline = Some(kind), line_state
\* Indent{len=0}) is resolved by the next Indent, Valid, Invalid or BOM token:
\* an EndOfLineMismatch is emitted, first, iff end_of_line is set and is not
\* the bare kind, with the line before the advance and range (col-1, col) of
\* that line; prev_newline is cleared and the line advances before the token
\* is accounted for (its column is 1, its diagnoses are on the new line).
C19_PendingNewlineResolvedByNextToken ==
    [][/\ (cs.prev_newline /= None => AtLineStart(cs))'
       /\ ResolvesPending =>
             LET mismatch == /\ config.end_of_line /= None
                             /\ config.end_of_line[1] /= cs.prev_newline[1]
                 eol == Diagnosis(cs.line, <<cs.col - 1, cs.col>>, EndOfLineMismatch)
                 rest == IF mismatch THEN Tail(Appended) ELSE Appended
             IN  /\ AppendedOf("EndOfLineMismatch") = IF mismatch THEN <<eol>> ELSE <<>>
                 /\ mismatch => Appended[1] = eol
                 /\ \A i \in DOMAIN rest : rest[i].line = cs.line + 1
                 /\ cs'.prev_newline = None
                 /\ Advanced /\ cs'.col = 2]_vars

\* 'a', a bare line feed, 'a' under end_of_line = crlf
C19_Witness ==
    /\ pc = "done"
    /\ config.end_of_line = Some("Crlf") /\ ByteOriented
    /\ Len(tokens) = 3
    /\ tokens[1].tok.kind = "Valid" /\ tokens[2].tok = NewLine("Lf")
    /\ tokens[3].tok.kind = "Valid"
    /\ cs.diagnosis = <<Diagnosis(1, <<1, 2>>, EndOfLineMismatch)>>
    /\ cs.line = 2 /\ cs.col = 2 /\ cs.prev_newline = None

Utf16 == config.charset \in {Some("Utf16BigEndian"), Some("Utf16LittleEndian")}

\* C20: under UTF16_BE or UTF16_LE a byte-order mark read first is discarded
\* with no diagnosis, a first token that is not one is processed as any token
\* with no diagnosis for the missing mark, and a byte-order mark token after
\* the first (or any handed to check_ch) gives exactly one InvalidCharacter
\* and leaves line_state NonWhitespace.
C20_Utf16MarkDiscardedThenInvalid ==
    [][/\ (Utf16 /\ pc = "start" /\ tokens' /= tokens) =>
             IF StepTok.kind = "Bom" THEN cs' = cs
             ELSE cs' = check_ch(cs, StepTok)
       /\ (Utf16 => NumOf("BomNotFound") = 0)'
       /\ (Fed /\ StepTok.kind = "Bom") =>
             /\ Len(AppendedOf("InvalidCharacter")) = 1
             /\ cs'.state = State_NonWhitespace]_vars

\* two little-endian marks: the first is dropped, the second is invalid
C20_Witness ==
    /\ pc = "done"
    /\ config.charset = Some("Utf16LittleEndian")
    /\ input = ExMarksLe
    /\ Len(tokens) = 2
    /\ tokens[1].tok = Bom /\ tokens[2].tok = Bom
    /\ cs.diagnosis = <<Diagnosis(1, <<0, 1>>, InvalidCharacter)>>
    /\ cs.state = State_NonWhitespace

\* C13: when a reader.next() call fails, in the preamble or in the loop,
\* check returns that error at once: no token is processed in or after that
\* step, and what is returned is the error alone, with none of the diagnoses
\* gathered so far (those are returned only by a run that reaches the end).
C13_IoErrorReturnedAtOnce ==
    [][/\ pc /= "failed"
       /\ pc' = "failed" =>
             /\ result' = Some(Err("io"))
             /\ cs' = cs /\ tokens' = tokens /\ pos' = pos
       /\ (result /= None => pc \in {"done", "failed"})'
       /\ (pc = "done" => result = Some(Ok(cs.diagnosis)))']_vars

\* a read fails after some diagnoses have been gathered
C13_Witness ==
    /\ pc = "failed"
    /\ result = Some(Err("io"))
    /\ Len(tokens) >= 2
    /\ Len(cs.diagnosis) >= 2

---------------------------------------------------------------------------
(* Properties of Config::get_config_for.                                   *)

Keys == DOMAIN EmptyConfig

\* the sections of ss that match the path and set `key`
SettersOf(ss, key) ==
    {j \in DOMAIN ss : ss[j].outcome = "matches" /\ ss[j].config[key] /= None}

\* the value of the last matching section that sets `key`, None if none does
LastSetting(ss, key) ==
    IF SettersOf(ss, key) = {} THEN None
    ELSE ss[CHOOSE j \in SettersOf(ss, key) : \A k \in SettersOf(ss, key) : k <= j].config[key]

\* C14: the Config that get_config_for returns has, for each key, the value of
\* the last matching section that sets that key; a key set only in an earlier
\* matching section keeps its value.
C14_LastMatchingSectionPerKey ==
    lookup.pc = "returned" =>
        \A key \in Keys : lookup.found[1][key] = LastSetting(lookup.sections, key)

---------------------------------------------------------------------------
(* Properties of parse_pattern.                                            *)

Count(s, c) == Cardinality({i \in DOMAIN s : s[i] = c})

\* x has one "{" and, after it, one "}"
OneGroup(x) ==
    /\ Count(x, "{") = 1 /\ Count(x, "}") = 1
    /\ find(x, "{")[1] < find(x, "}")[1]

\* the text before the group, inside its braces, and after it
GroupOf(x) ==
    LET b == find(x, "{")[1]
        e == find(x, "}")[1]
    IN  [p |-> Slice(x, 0, b), inner |-> Slice(x, b + 1, e), q |-> Slice(x, e + 1, Len(x))]

IsRange(inner) ==
    /\ split_once_dots(inner) /= None
    /\ parse_i32(split_once_dots(inner)[1][1]) /= None
    /\ parse_i32(split_once_dots(inner)[1][2]) /= None

IsAlternatives(inner) == split_once_dots(inner) = None

\* p alt q for every alternative, p i q for every integer i from n to m
ExpectedGlobs(x) ==
    LET g == GroupOf(x)
        n == parse_i32(split_once_dots(g.inner)[1][1])[1]
        m == parse_i32(split_once_dots(g.inner)[1][2])[1]
    IN  IF IsRange(g.inner)
        THEN {g.p \o format_i32(i) \o g.q : i \in n..m}
        ELSE {g.p \o alt \o g.q : alt \in {split(g.inner, ",")[k] :
                                              k \in DOMAIN split(g.inner, ",")}}

PatternEnded == pat.pc \in {"returned", "error", "panicked"}

\* C15: for a pattern with one brace group, parse_pattern never panics, and
\* for a group of alternatives or of a number range it returns exactly the
\* globs p alt q, one per alternative, or p i q for every integer i from n to
\* m, whatever the prefix p and the suffix q.
C15_BraceGroupExpands ==
    (PatternEnded /\ OneGroup(pat.pattern)) =>
        /\ pat.pc /= "panicked"
        /\ (IsRange(GroupOf(pat.pattern).inner) \/ IsAlternatives(GroupOf(pat.pattern).inner)) =>
              /\ pat.pc = "returned"
              /\ {pat.expanded_patterns[k] : k \in DOMAIN pat.expanded_patterns}
                    = ExpectedGlobs(pat.pattern)

---------------------------------------------------------------------------
(* Further properties of the readers and of check().                       *)

\* the bytes of the source that the i-th reader.next() call consumed
BytesOf(i) == SubSeq(input, tokens[i].at, tokens[i].at + tokens[i].used - 1)

\* C21: the UTF-16 readers give a Valid token of a plain 2-byte code unit
\* those 2 bytes as payload, a surrogate pair its 4 bytes, and in every case
\* the payload of a Valid or Invalid token is exactly the bytes consumed for it.
C21_Utf16PayloadIsBytesConsumed ==
    Utf16 =>
        \A i \in DOMAIN tokens :
            tokens[i].tok.kind \in {"Valid", "Invalid"} => tokens[i].tok.v = BytesOf(i)

\* check() has ended: by returning the list, by returning the error of a
\* read, or by the panic of CharacterReader::new
Ended == pc \in {"done", "failed", "panicked"}

\* the reader.next() calls so far took the bytes of the source one after
\* another, at least one each, and `pos` is where the next call reads
ConsumedInTurn ==
    /\ \A i \in DOMAIN tokens :
          /\ tokens[i].used >= 1
          /\ tokens[i].at = IF i = 1 THEN 1 ELSE tokens[i - 1].at + tokens[i - 1].used
    /\ pos = IF tokens = <<>> THEN 1
             ELSE tokens[Len(tokens)].at + tokens[Len(tokens)].used

\* C22: for every finite input and every charset check ends; each
\* reader.next() call that returns a token consumes at least one byte, each
\* step takes one token and each token is taken once; when the reader signals
\* end-of-input the whole input has been consumed and check returns the list
\* as it stands, with no further diagnosis; NoFinalNewline is never emitted.
C22_CheckTerminates ==
    /\ [][/\ tokens' /= tokens =>
                /\ Len(tokens') = Len(tokens) + 1
                /\ SubSeq(tokens', 1, Len(tokens)) = tokens
                /\ pos' > pos
          /\ ConsumedInTurn'
          /\ pc' = "done" =>
                /\ pos > Len(input)
                /\ cs' = cs
                /\ result' = Some(Ok(cs.diagnosis))
          /\ (NumOf("NoFinalNewline") = 0)'
          /\ (pc = "panicked" => config.charset = Some("Latin1"))']_vars
    /\ <>Ended

\* a UTF-16 run that took two tokens of two bytes and returned
C22_Witness ==
    /\ pc = "done"
    /\ Utf16
    /\ Len(input) = 4 /\ pos = 5
    /\ Len(tokens) = 2
    /\ result = Some(Ok(cs.diagnosis))

\* the line terminators among the tokens ts: a CR with the LF right after it
\* is one, every other CR or LF is one
Terminators(ts) ==
    Cardinality({i \in DOMAIN ts : ts[i].tok.kind = "NewLine"})
    - Cardinality({i \in DOMAIN ts :
                      /\ i > 1
                      /\ ts[i].tok = NewLine("Lf")
                      /\ ts[i - 1].tok = NewLine("Cr")})

\* the diagnoses this step appended about the characters of a line (all but
\* those about a line terminator)
AppendedAboutCharacters ==
    SelectSeq(Appended, LAMBDA d : d.reason[1] /= "EndOfLineMismatch")

\* C23: the line under which a non-newline token is accounted, and which the
\* diagnoses about it carry, is 1 plus the number of line terminators before
\* it, CR LF counting as one and every other CR or LF as one each; the
\* diagnoses that a NewLine appends about the whitespace before it carry the
\* line of that whitespace.
C23_LineIsOnePlusTerminators ==
    [][Fed =>
         LET here == 1 + Terminators(FedTokens)
             about == AppendedAboutCharacters
         IN  /\ StepTok.kind /= "NewLine" => cs'.line = here
             /\ \A i \in DOMAIN about : about[i].line = here]_vars

\* CR CR LF 'a': two terminators, 'a' is on line 3
C23_Witness ==
    /\ pc = "done"
    /\ input = ExCrCrLf /\ ByteOriented
    /\ Len(tokens) = 4
    /\ tokens[4].tok.kind = "Valid"
    /\ Terminators(FedTokens) = 2
    /\ cs.line = 3

\* the state carries a run length
HasLen(s) == s.state.tag \in {"Indent", "NonIndentWhitespace"}

\* C24: col >= 1, and col > len whenever line_state is Indent{len} or
\* NonIndentWhitespace{len}; so col - len and col - 1, computed on unsigned
\* numbers to build the ranges, never go below 0: every range built is
\* 0 <= begin <= end.
C24_ColExceedsLen ==
    /\ cs.col >= 1
    /\ HasLen(cs) => cs.col > cs.state.len
    /\ \A i \in DOMAIN cs.diagnosis :
          /\ cs.diagnosis[i].range[1] >= 0
          /\ cs.diagnosis[i].range[1] <= cs.diagnosis[i].range[2]

\* a leading run of three: len 3 at col 4, then its range (1, 4) at the
\* newline
C24_Witness ==
    /\ pc = "done"
    /\ Len(FedTokens) = 4
    /\ \A i \in 1..3 : FedTokens[i].tok.kind = "Indent"
    /\ FedTokens[4].tok.kind = "NewLine"
    /\ cs.col = 4
    /\ \E i \in DOMAIN cs.diagnosis :
          /\ cs.diagnosis[i].reason[1] = "TrailingWhiteSpaces"
          /\ cs.diagnosis[i].range = <<1, 4>>

\* the last token fed is a bare terminator: a CR, or an LF that does not
\* come right after a CR
LastIsBare ==
    LET n == Len(FedTokens)
    IN  /\ n >= 1
        /\ FedTokens[n].tok.kind = "NewLine"
        /\ ~(n > 1 /\ FedTokens[n].tok = NewLine("Lf") /\ FedTokens[n - 1].tok = NewLine("Cr"))

\* a bare terminator is pending and end_of_line is set to another kind
PendingMismatch ==
    /\ cs.prev_newline /= None
    /\ config.end_of_line /= None
    /\ config.end_of_line[1] /= cs.prev_newline[1]

\* C25: a bare CR or LF that is the last token so far is not resolved: it is
\* kept in prev_newline, the line has not advanced for it, and there is no
\* EndOfLineMismatch for the line it ends, whatever end_of_line is; a
\* mismatching bare terminator is reported by the step of the next token,
\* newline or not (an LF after a CR makes the CR half of a CR LF, not bare).
C25_TrailingBareNewlineUnresolved ==
    [][/\ (LastIsBare =>
             /\ cs.prev_newline = Some(FedTokens[Len(FedTokens)].tok.v)
             /\ cs.line = Terminators(FedTokens))'
       /\ (\A i \in DOMAIN cs.diagnosis :
             cs.diagnosis[i].reason[1] = "EndOfLineMismatch" =>
                 cs.diagnosis[i].line < cs.line)'
       /\ (/\ Fed /\ PendingMismatch
           /\ ~(cs.prev_newline = Some("Cr") /\ StepTok = NewLine("Lf"))) =>
             AppendedOf("EndOfLineMismatch") =
                 <<Diagnosis(cs.line, <<cs.col - 1, cs.col>>, EndOfLineMismatch)>>]_vars

\* 'a' and a bare LF under end_of_line = crlf: nothing is reported
C25_Witness ==
    /\ pc = "done"
    /\ config.end_of_line = Some("Crlf") /\ ByteOriented
    /\ Len(tokens) = 2
    /\ tokens[1].tok.kind = "Valid" /\ tokens[2].tok = NewLine("Lf")
    /\ cs.prev_newline = Some("Lf")
    /\ cs.line = 1
    /\ NumOf("EndOfLineMismatch") = 0
    /\ result = Some(Ok(cs.diagnosis))

=============================================================================
